---- MODULE Spec2Model ----
(***************************************************************************)
(* A model of pyipm.py: the line-search primal-dual interior-point solver  *)
(* (class IPM).                                                            *)
(*                                                                         *)
(* Numbers.  Floating-point values are modelled on a fixed grid: an        *)
(* integer v stands for the real number v / SC, and the machine epsilon    *)
(* self.eps is one grid unit.  sqrt(eps) (reg_coef, delta0) is then        *)
(* SqrtEpsInv units, because SC = SqrtEpsInv^2.  The result of a product   *)
(* or a quotient is rounded to the nearest grid value (RMul, RDiv), as a   *)
(* floating-point operation rounds to the nearest representable value.     *)
(*                                                                         *)
(* External collaborators.  The user's symbolic expressions (f, ce, ci and *)
(* their derivatives) and the linear-algebra kernel (sym_solve, eigh,      *)
(* pinv, lstsq) are not part of the solver: what they return is drawn      *)
(* from small sets.                                                        *)
(***************************************************************************)
EXTENDS Integers, Sequences, FiniteSets, TLC

VARIABLES
    \* ---- a call of step or reghess on its own ----
    fin,        \* the arguments of the call
    fout,       \* its result, or NoRes before the call
    \* ---- IPM object and the position of solve ----
    cfg,        \* constructor arguments (immutable after __init__)
    pc,         \* position of the solve call
    run,        \* number of solve calls started on this object
    self_s0,    \* self.s0
    self_lda0,  \* self.lda0
    compiled,   \* self.compiled
    mu_host,    \* self.mu_host
    mu_dev,     \* self.mu_dev (shared device variable)
    nu_host,    \* self.nu_host
    nu_dev,     \* self.nu_dev (shared device variable)
    delta,      \* self.delta
    x,          \* local x of solve
    s,          \* local s of solve
    lda,        \* local lda of solve
    kkt,        \* local kkt of solve
    lb,         \* local L-BFGS storage of solve (zeta, columns, lbfgs_fail)
    dz,         \* local dz of solve
    outer,      \* loop variable outer (Undef before the first iteration)
    inner,      \* loop variable inner (Undef before the first iteration)
    iter_count, \* local iter_count of solve
    exitBy,     \* which exit the outer loop took
    ret,        \* the tuple solve returned, or the exception it raised
    start,      \* start[r]: solver state read by the first iteration of call
                \* r, and whether the call was given s0
    linfail     \* the places where a linear solve failed during this call

fvars == <<fin, fout>>
svars == <<cfg, pc, run, self_s0, self_lda0, compiled, mu_host, mu_dev,
           nu_host, nu_dev, delta, x, s, lda, kkt, lb, dz, outer, inner,
           iter_count, exitBy, ret, start, linfail>>
vars == <<fin, fout, cfg, pc, run, self_s0, self_lda0, compiled, mu_host,
          mu_dev, nu_host, nu_dev, delta, x, s, lda, kkt, lb, dz, outer,
          inner, iter_count, exitBy, ret, start, linfail>>

(***************************************************************************)
(* Grid arithmetic                                                         *)
(***************************************************************************)

\* sqrt(eps) is 1/SqrtEpsInv: self.reg_coef = sqrt(self.eps)
SqrtEpsInv == 4

\* grid units per 1.0; self.eps is 1/SC
SC == SqrtEpsInv * SqrtEpsInv

\* self.eps, in grid units
eps == 1

\* self.reg_coef, in grid units
reg_coef == SqrtEpsInv

\* self.delta0 = self.reg_coef
delta0 == reg_coef

Abs(n) == IF n < 0 THEN -n ELSE n

Max(a, b) == IF a >= b THEN a ELSE b

Min(a, b) == IF a <= b THEN a ELSE b

\* n / d rounded to the nearest integer (d > 0)
RDiv(n, d) == (2 * n + d) \div (2 * d)

\* the grid value of the product of two grid values
RMul(a, b) == RDiv(a * b, SC)

\* the grid value of the quotient of two grid values (b > 0)
RQuo(a, b) == RDiv(a * SC, b)

RECURSIVE SumSeq(_)
SumSeq(q) == IF q = <<>> THEN 0 ELSE Head(q) + SumSeq(Tail(q))

\* np.dot of two vectors of grid values
Dot(u, v) == SumSeq([i \in 1..Len(u) |-> RMul(u[i], v[i])])

\* np.sum(np.abs(v))
Norm1(v) == SumSeq([i \in 1..Len(v) |-> Abs(v[i])])

\* the square of np.linalg.norm(v), in squared grid units
NormSq(v) == SumSeq([i \in 1..Len(v) |-> v[i] * v[i]])

\* a floating-point NaN, outside the range of the grid values
NaN == 32767

HasNaN(v) == \E i \in 1..Len(v) : v[i] = NaN

\* np.linalg.norm(v) <= tol; the norm of a vector holding a NaN is NaN and
\* every comparison with NaN is False
NormLe(v, tol) == ~HasNaN(v) /\ tol >= 0 /\ NormSq(v) <= tol * tol

(***************************************************************************)
(* IPM.step: fraction-to-the-boundary rule by golden-section search        *)
(***************************************************************************)

\* GOLD = (sqrt(5)+1)/2, as the rational GoldNum/GoldDen
GoldNum == 1618

GoldDen == 1000

\* np.all(x + al*dx >= (1.0-tau)*x); al is a grid value, x and dx share a unit
StepOk(tauN, tauD, xx, dx, al) ==
    \A i \in 1..Len(xx) :
        tauD * (SC * xx[i] + al * dx[i]) >= (tauD - tauN) * SC * xx[i]

\* (b - a)/GOLD on the grid
GoldFrac(w) == RDiv(w * GoldDen, GoldNum)

\* mutant of StepLoop: the loop hands back the upper end b of the bracket
RECURSIVE StepLoopUpper(_, _, _, _, _, _, _, _, _)
StepLoopUpper(tauN, tauD, Xtol, xx, dx, a, b, c, d) ==
    IF ~(Abs(b - a) * GoldDen > GoldNum * Xtol)
    THEN b
    ELSE LET dBad == ~StepOk(tauN, tauD, xx, dx, d)
             b1 == IF dBad THEN d ELSE b
             a1 == IF dBad THEN a ELSE d
             cBad == ~StepOk(tauN, tauD, xx, dx, c)
             b2 == IF c > a1 /\ cBad THEN c ELSE b1
             a2 == IF c > a1 /\ ~cBad THEN c ELSE a1
         IN  StepLoopUpper(tauN, tauD, Xtol, xx, dx, a2, b2,
                           b2 - GoldFrac(b2 - a2), a2 + GoldFrac(b2 - a2))

\* the while loop of step: one pass per recursion
RECURSIVE StepLoop(_, _, _, _, _, _, _, _, _)
StepLoop(tauN, tauD, Xtol, xx, dx, a, b, c, d) ==
    IF ~(Abs(b - a) * GoldDen > GoldNum * Xtol)
    THEN a
    ELSE LET dBad == ~StepOk(tauN, tauD, xx, dx, d)
             b1 == IF dBad THEN d ELSE b
             a1 == IF dBad THEN a ELSE d
             cBad == ~StepOk(tauN, tauD, xx, dx, c)
             b2 == IF c > a1 /\ cBad THEN c ELSE b1
             a2 == IF c > a1 /\ ~cBad THEN c ELSE a1
         IN  StepLoop(tauN, tauD, Xtol, xx, dx, a2, b2,
                      b2 - GoldFrac(b2 - a2), a2 + GoldFrac(b2 - a2))

\* step(x, dx) with self.tau = tauN/tauD and self.Xtol = Xtol
step(tauN, tauD, Xtol, xx, dx) ==
    IF StepOk(tauN, tauD, xx, dx, SC)
    THEN SC
    ELSE StepLoop(tauN, tauD, Xtol, xx, dx, 0, SC,
                  SC - GoldFrac(SC), GoldFrac(SC))

(***************************************************************************)
(* IPM.reghess on concrete symmetric matrices of order 1 and 2             *)
(*                                                                         *)
(* A matrix is [n, a, b, c]: [[a]] when n = 1 and [[a, b], [b, c]] when    *)
(* n = 2.  What self.eigh returns is read off exactly: the number of       *)
(* eigenvalues below a threshold and the test rcond <= eps.                *)
(***************************************************************************)

\* number of eigenvalues w of H with w < t
CountBelow(H, t) ==
    IF H.n = 1
    THEN (IF H.a < t THEN 1 ELSE 0)
    ELSE LET a1 == H.a - t
             c1 == H.c - t
             det == a1 * c1 - H.b * H.b
         IN  IF det < 0 THEN 1
             ELSE IF det > 0 THEN (IF a1 < 0 THEN 2 ELSE 0)
             ELSE (IF a1 + c1 < 0 THEN 1 ELSE 0)

\* number of eigenvalues w of H with w > t
CountAbove(H, t) ==
    CountBelow([n |-> H.n, a |-> -H.a, b |-> -H.b, c |-> -H.c], -t)

\* rcond = np.min(np.abs(w))/np.max(np.abs(w)); rcond <= self.eps
\* (0/0 is NaN for the zero matrix, and NaN <= eps is False)
RcondLeEps(H) ==
    IF H.n = 1
    THEN FALSE
    ELSE LET det == H.a * H.c - H.b * H.b
             tr2 == H.a * H.a + 2 * H.b * H.b + H.c * H.c
         IN  IF tr2 = 0 THEN FALSE
             ELSE IF det = 0 THEN TRUE
             ELSE tr2 * SC >= Abs(det) * (1 + SC * SC)

\* self.delta on entry to the regularizing branch (lines 874-877)
DeltaStart(dl) == IF dl = 0 THEN delta0 ELSE Max(RDiv(dl, 2), delta0)

\* self.delta *= 10.0
DeltaRetry(dl) == dl * 10

\* Hc[:nvar, :nvar] += d*np.eye(nvar)
ShiftPrimal(H, nvar, d) ==
    IF nvar = 2
    THEN [H EXCEPT !.a = @ + d, !.c = @ + d]
    ELSE [H EXCEPT !.a = @ + d]

\* Hc[ind1:ind2, ind1:ind2] -= reg_coef*eta*(mu_host ** beta)*np.eye(neq)
ShiftEq(H, r) == [H EXCEPT !.c = @ - r]

\* largest self.delta the model follows the while loop to
DeltaCap == 4000

\* mutant of RegLoop: a retry adds the new shift on top of the old one
RECURSIVE RegLoopNoUndo(_, _, _, _)
RegLoopNoUndo(Hs, nvar, want, dl) ==
    IF want = CountBelow(Hs, -eps)
    THEN [returned |-> TRUE, H |-> Hs, delta |-> dl]
    ELSE IF DeltaRetry(dl) > DeltaCap
    THEN [returned |-> FALSE, H |-> Hs, delta |-> dl]
    ELSE RegLoopNoUndo(ShiftPrimal(Hs, nvar, DeltaRetry(dl)), nvar, want,
                       DeltaRetry(dl))

\* the while loop of reghess (lines 880-884); Hs is Hc with the shift dl on
\* its primal block: a retry takes the shift out, multiplies delta by 10
\* and puts the new shift in
RECURSIVE RegLoop(_, _, _, _)
RegLoop(Hs, nvar, want, dl) ==
    IF want = CountBelow(Hs, -eps)
    THEN [returned |-> TRUE, H |-> Hs, delta |-> dl]
    ELSE IF DeltaRetry(dl) > DeltaCap
    THEN [returned |-> FALSE, H |-> Hs, delta |-> dl]
    ELSE RegLoop(ShiftPrimal(ShiftPrimal(Hs, nvar, -dl), nvar,
                             DeltaRetry(dl)),
                 nvar, want, DeltaRetry(dl))

\* the test of line 869
Regularizes(Hc, neq, nineq) ==
    RcondLeEps(Hc) \/ (neq + nineq) # CountBelow(Hc, -eps)

\* reghess(Hc) with self.delta = dl; regE is reg_coef*eta*(mu_host ** beta)
reghess(Hc, nvar, neq, nineq, dl, regE) ==
    IF Regularizes(Hc, neq, nineq)
    THEN LET H1 == IF RcondLeEps(Hc) /\ neq > 0 THEN ShiftEq(Hc, regE) ELSE Hc
         IN  RegLoop(ShiftPrimal(H1, nvar, DeltaStart(dl)), nvar,
                     neq + nineq, DeltaStart(dl))
    ELSE [returned |-> TRUE, H |-> Hc, delta |-> dl]

(***************************************************************************)
(* step and reghess on their own: the arguments are drawn in the initial  *)
(* state and one action applies the function.                             *)
(***************************************************************************)

NoRes == [done |-> FALSE]

\* the variables of solve are not used by a call of step or reghess alone
SolveParked ==
    /\ cfg = [parked |-> TRUE]
    /\ pc = "parked"
    /\ run = 0
    /\ self_s0 = <<>>
    /\ self_lda0 = <<>>
    /\ compiled = FALSE
    /\ mu_host = 0
    /\ mu_dev = 0
    /\ nu_host = 0
    /\ nu_dev = 0
    /\ delta = 0
    /\ x = 0
    /\ s = <<>>
    /\ lda = <<>>
    /\ kkt = <<>>
    /\ lb = <<>>
    /\ dz = <<>>
    /\ outer = 0
    /\ inner = 0
    /\ iter_count = 0
    /\ exitBy = "none"
    /\ ret = <<>>
    /\ start = <<>>
    /\ linfail = {}

\* largest entry of the positive vector handed to step
MaxP == 3

\* largest magnitude of an entry of the direction handed to step
MaxDp == 4

\* vectors of length 1 and 2 over a set
Vecs(S) == {<<u>> : u \in S} \cup {<<u, v>> : u \in S, v \in S}

\* self.tau as numerator/denominator: the default 0.995, and 1/2
TauSet == {<<199, 200>>, <<1, 2>>}

\* self.Xtol in grid units: the default self.eps, and 2*eps
XtolSet == {eps, 2 * eps}

InitStep ==
    /\ fin \in {[fn |-> "step", tau |-> t, Xtol |-> xt, p |-> p, dp |-> dp] :
                 t \in TauSet, xt \in XtolSet,
                 p \in {<<1>>, <<2>>, <<MaxP>>, <<1, MaxP>>, <<2, 1>>},
                 dp \in Vecs((-MaxDp)..1)}
    /\ Len(fin.p) = Len(fin.dp)
    /\ fout = NoRes
    /\ SolveParked

StepCall ==
    /\ fin.fn = "step"
    /\ fout = NoRes
    /\ fout' = [done |-> TRUE,
                alpha |-> step(fin.tau[1], fin.tau[2], fin.Xtol, fin.p, fin.dp)]
    /\ UNCHANGED <<fin, svars>>

NextStep == StepCall

SpecStep == InitStep /\ [][NextStep]_vars

\* p + alpha*dp >= (1 - tau)*p elementwise, for alpha = al/SC
FtbHolds(al) ==
    \A i \in 1..Len(fin.p) :
        fin.tau[2] * (SC * fin.p[i] + al * fin.dp[i])
            >= (fin.tau[2] - fin.tau[1]) * SC * fin.p[i]

\* the closed-form bound min over dp[i] < 0 of tau*p[i]/(-dp[i]) is at most
\* al/SC + GOLD*Xtol
ClosedFormWithin(al) ==
    \E i \in 1..Len(fin.p) :
        /\ fin.dp[i] < 0
        /\ fin.tau[1] * fin.p[i] * SC * GoldDen
             <= (al * GoldDen + GoldNum * fin.Xtol) * fin.tau[2] * (-fin.dp[i])

\* C3: for a strictly positive p, step(p, dp) returns alpha in [0,1] with
\* p + alpha*dp >= (1 - tau)*p elementwise; it returns exactly 1 when the
\* full step satisfies the bound, and otherwise alpha is within GOLD*Xtol
\* below the closed-form componentwise minimum.
C3_StepBound ==
    (fin.fn = "step" /\ fout.done) =>
        /\ fout.alpha \in 0..SC
        /\ FtbHolds(fout.alpha)
        /\ FtbHolds(SC) => fout.alpha = SC
        /\ ~FtbHolds(SC) => (fout.alpha < SC /\ ClosedFormWithin(fout.alpha))

\* C3 witness: the bisection ran and stopped strictly inside (0, 1)
C3_Witness ==
    /\ fin.fn = "step"
    /\ fout.done
    /\ ~FtbHolds(SC)
    /\ fout.alpha > 0
    /\ fout.alpha < SC
    /\ Len(fin.p) = 2

(***************************************************************************)
(* reghess on its own                                                      *)
(***************************************************************************)

\* largest magnitude of an entry of the matrix handed to reghess
MaxEntry == 8

EntrySet == {-MaxEntry, -delta0, -eps, 0, eps, 2, MaxEntry}

\* (nvar, neq, nineq) with nvar + 2*nineq + neq <= 2
DimSet == {<<1, 0, 0>>, <<2, 0, 0>>, <<1, 1, 0>>}

\* the matrices solve can hand to reghess for the dimensions dm
HcSet(dm) ==
    {H \in {[n |-> dm[1] + dm[2], a |-> a, b |-> b, c |-> c] :
               a \in EntrySet, b \in {0, eps, MaxEntry}, c \in EntrySet} :
        /\ H.n = 1 => (H.b = 0 /\ H.c = 0)
        /\ dm[2] = 1 => H.c = 0}

\* number of reghess calls of one solve the model follows
MaxRegCalls == 3

\* the first reghess call of a solve: self.delta is 0.0 (line 1065).  calls
\* counts the calls so far and regd tells whether one of the earlier calls
\* regularized
InitReghess ==
    /\ \E dm \in DimSet :
          fin \in {[fn |-> "reghess", dim |-> dm, delta |-> 0, regE |-> r,
                    Hc |-> H, calls |-> 1, regd |-> FALSE] :
                    r \in {eps, 2 * eps}, H \in HcSet(dm)}
    /\ fout = NoRes
    /\ SolveParked

ReghessCall ==
    /\ fin.fn = "reghess"
    /\ fout = NoRes
    /\ LET r == reghess(fin.Hc, fin.dim[1], fin.dim[2], fin.dim[3],
                        fin.delta, fin.regE)
       IN  fout' = [done |-> TRUE, returned |-> r.returned, H |-> r.H,
                    delta |-> r.delta]
    /\ UNCHANGED <<fin, svars>>

\* the next inner iteration of solve calls reghess on a new matrix, with
\* the self.delta the previous call left (line 1119)
ReghessAgain ==
    /\ fin.fn = "reghess"
    /\ fout.done
    /\ fout.returned
    /\ fin.calls < MaxRegCalls
    /\ \E H \in HcSet(fin.dim) :
          fin' = [fin EXCEPT !.Hc = H, !.delta = fout.delta,
                             !.calls = @ + 1,
                             !.regd = @ \/ Regularizes(fin.Hc, fin.dim[2],
                                                       fin.dim[3])]
    /\ fout' = NoRes
    /\ UNCHANGED svars

NextReghess == ReghessCall \/ ReghessAgain

SpecReghess == InitReghess /\ [][NextReghess]_vars

\* C4: whenever reghess returns, the matrix it returns has inertia
\* (D, M+N, 0): D positive eigenvalues, M+N negative ones, none zero.
C4_InertiaAfterReghess ==
    (fin.fn = "reghess" /\ fout.done /\ fout.returned) =>
        /\ CountAbove(fout.H, 0) = fin.dim[1]
        /\ CountBelow(fout.H, 0) = fin.dim[2] + fin.dim[3]

(***************************************************************************)
(* lbfgs_init and lbfgs_update on their own                                *)
(*                                                                         *)
(* S and Y are sequences of columns; SS, L and D are sequences of rows.    *)
(* c.con stands for "self.neq or self.nineq".                              *)
(***************************************************************************)

\* lines 585-599
LbfgsInit(c) ==
    [zeta |-> c.lbfgs_zeta, S |-> <<>>, Y |-> <<>>, SS |-> <<>>, L |-> <<>>,
     D |-> <<>>, fail |-> 0]

\* lines 794-797: the candidate scaling
ZetaNew(con, dx, dg) ==
    IF con THEN RQuo(Dot(dg, dx), Dot(dx, dx) + eps)
    ELSE RQuo(Dot(dg, dx), Dot(dg, dg) + eps)

\* mutant of Accepts: the scaling is not tested
AcceptsCurvatureOnly(con, dx, dg) == Dot(dx, dg) > reg_coef

\* line 798: the test a pair has to pass to be stored
Accepts(con, dx, dg) ==
    Dot(dx, dg) > reg_coef /\ ZetaNew(con, dx, dg) > reg_coef

\* mutant of ResetDue: the reset comes one failure earlier
ResetDueEarly(c, fail, cols) == fail >= c.lbfgs_fail_max /\ cols > 0

\* line 853: the test for a reset of the storage
ResetDue(c, fail, cols) == fail > c.lbfgs_fail_max /\ cols > 0

\* mutant of Room: dropping the oldest pair leaves the matrix as it is
RoomKeep(Mt, k, k1) ==
    [i \in 1..k1 |-> [j \in 1..k1 |->
        IF i <= k /\ j <= k THEN Mt[i][j] ELSE 0]]

\* lines 800-816: room for the new pair in a k x k matrix, which becomes
\* k1 x k1: the leading block moves up and left by one when the oldest pair
\* is dropped (the last row and column keep their entries), and a row and a
\* column of zeros are appended otherwise
Room(Mt, k, k1) ==
    [i \in 1..k1 |-> [j \in 1..k1 |->
        IF k1 = k
        THEN (IF i < k /\ j < k THEN Mt[i + 1][j + 1] ELSE Mt[i][j])
        ELSE (IF i <= k /\ j <= k THEN Mt[i][j] ELSE 0)]]

\* lines 785-858
LbfgsUpdate(c, st, dx, dg) ==
    LET k == Len(st.S)
        drop == k > c.lbfgs
        k1 == IF drop THEN k ELSE k + 1
        S1 == IF drop THEN Append(Tail(st.S), dx) ELSE Append(st.S, dx)
        Y1 == IF drop THEN Append(Tail(st.Y), dg) ELSE Append(st.Y, dg)
        su == IF c.con THEN [j \in 1..k1 |-> Dot(S1[j], dx)]
              ELSE [j \in 1..k1 |-> Dot(Y1[j], dg)]
        lu == IF c.con THEN [j \in 1..k1 |-> Dot(dx, Y1[j])]
              ELSE [j \in 1..k1 |-> Dot(S1[j], dg)]
        SS0 == Room(st.SS, k, k1)
        L0 == Room(st.L, k, k1)
        D0 == Room(st.D, k, k1)
        SS1 == [i \in 1..k1 |-> [j \in 1..k1 |->
                  IF i = k1 THEN su[j] ELSE IF j = k1 THEN su[i]
                  ELSE SS0[i][j]]]
        L1 == IF c.con
              THEN [i \in 1..k1 |-> [j \in 1..k1 |->
                      IF i = k1 THEN (IF j = k1 THEN 0 ELSE lu[j])
                      ELSE L0[i][j]]]
              ELSE [i \in 1..k1 |-> [j \in 1..k1 |->
                      IF j = k1 THEN lu[i] ELSE L0[i][j]]]
        D1 == [i \in 1..k1 |-> [j \in 1..k1 |->
                  IF i = k1 /\ j = k1 THEN Dot(dx, dg) ELSE D0[i][j]]]
        upd == IF Accepts(c.con, dx, dg)
               THEN [zeta |-> ZetaNew(c.con, dx, dg), S |-> S1, Y |-> Y1,
                     SS |-> SS1, L |-> L1, D |-> D1, fail |-> 0]
               ELSE [st EXCEPT !.fail = @ + 1]
    IN  IF ResetDue(c, upd.fail, Len(upd.S)) THEN LbfgsInit(c) ELSE upd

LbfgsMem == 1

\* number of calls of lbfgs_update in a row
MaxCalls == 5

\* the pairs (dx, dg) handed to lbfgs_update, with nvar = 1: pairs passing
\* both tests, failing both, and failing exactly one of them
PairSet ==
    {<<SC, SC>>, <<2 * SC, SC>>, <<eps, SC>>, <<-SC, SC>>,
     <<SC \div 2, 4 * SC>>, <<SC, 2 * eps>>, <<4 * SC, SC \div 2>>}

\* lines 799-800: the call stores the pair and drops the oldest one for it
Evicts(c, st, dx, dg) == Accepts(c.con, dx, dg) /\ Len(st.S) > c.lbfgs

InitLbfgs ==
    /\ fin \in {[fn |-> "lbfgs_update", calls |-> 0, dx |-> <<>>, dg |-> <<>>,
                  evicted |-> FALSE,
                  c |-> [con |-> con, lbfgs |-> LbfgsMem,
                         lbfgs_fail_max |-> LbfgsMem, lbfgs_zeta |-> SC]] :
                 con \in BOOLEAN}
    /\ fout = LbfgsInit(fin.c)
    /\ SolveParked

LbfgsCall ==
    /\ fin.fn = "lbfgs_update"
    /\ fin.calls < MaxCalls
    /\ \E pr \in PairSet :
         /\ fin' = [fin EXCEPT !.calls = @ + 1, !.dx = <<pr[1]>>,
                               !.dg = <<pr[2]>>,
                               !.evicted = Evicts(fin.c, fout, <<pr[1]>>,
                                                  <<pr[2]>>)]
         /\ fout' = LbfgsUpdate(fin.c, fout, <<pr[1]>>, <<pr[2]>>)
    /\ UNCHANGED svars

NextLbfgs == LbfgsCall

SpecLbfgs == InitLbfgs /\ [][NextLbfgs]_vars

\* the pair of the most recent call was rejected
LastRejected == fin.calls > 0 /\ ~Accepts(fin.c.con, fin.dx, fin.dg)

\* C15 (as stated): every stored pair passed both tests, and a call with a
\* pair failing a test leaves the stored pairs and zeta as they were.
C15_RejectedLeavesZeta ==
    [][(fin'.calls = fin.calls + 1
        /\ ~(Dot(fin'.dx, fin'.dg) > reg_coef
             /\ ZetaNew(fin.c.con, fin'.dx, fin'.dg) > reg_coef)) =>
          (fout'.S = fout.S /\ fout'.Y = fout.Y
           /\ fout'.zeta = fout.zeta)]_vars

\* C15 (amended): every stored pair (dx, dg) has dx.dg > sqrt(eps) and a
\* scaling zeta_new > sqrt(eps); zeta is the zeta_new of the newest stored
\* pair, or the initial zeta when nothing is stored, so that a rejected pair
\* is never stored and its zeta_new never becomes zeta.
C15_StoredPairsPassed ==
    fin.fn = "lbfgs_update" =>
        /\ Len(fout.Y) = Len(fout.S)
        /\ \A j \in 1..Len(fout.S) :
             /\ Dot(fout.S[j], fout.Y[j]) > reg_coef
             /\ ZetaNew(fin.c.con, fout.S[j], fout.Y[j]) > reg_coef
        /\ fout.zeta = IF fout.S = <<>> THEN fin.c.lbfgs_zeta
                       ELSE ZetaNew(fin.c.con, fout.S[Len(fout.S)],
                                    fout.Y[Len(fout.S)])

C15_Witness ==
    /\ Len(fout.S) >= 1
    /\ fout.fail = 1
    /\ Dot(fin.dx, fin.dg) > reg_coef
    /\ ZetaNew(fin.c.con, fin.dx, fin.dg) <= reg_coef
    /\ fout.zeta # fin.c.lbfgs_zeta

\* C16: the number of stored columns of S and Y, and the side length of
\* SS, L and D, never exceeds the memory limit self.lbfgs.
C16_ColumnsWithinMemory ==
    fin.fn = "lbfgs_update" =>
        \A Mt \in {fout.S, fout.Y, fout.SS, fout.L, fout.D} :
            Len(Mt) <= fin.c.lbfgs

\* C17: a rejected pair adds one to lbfgs_fail and an accepted one sets it
\* to 0; the storage is reset exactly when lbfgs_fail then exceeds the limit
\* and a column is stored, and the reset leaves S, Y, SS, L, D empty, zeta
\* at its initial value and lbfgs_fail at 0; a rejection without reset
\* changes nothing but lbfgs_fail.
C17_FailCountAndReset ==
    [][fin'.calls = fin.calls + 1 =>
         LET acc == Dot(fin'.dx, fin'.dg) > reg_coef
                    /\ ZetaNew(fin.c.con, fin'.dx, fin'.dg) > reg_coef
             due == ~acc /\ fout.fail + 1 > fin.c.lbfgs
                    /\ Len(fout.S) > 0
             empty == [zeta |-> fin.c.lbfgs_zeta, S |-> <<>>, Y |-> <<>>,
                       SS |-> <<>>, L |-> <<>>, D |-> <<>>, fail |-> 0]
         IN  /\ due => fout' = empty
             /\ ~due => fout' # empty
             /\ (acc /\ ~due) => fout'.fail = 0
             /\ (~acc /\ ~due) => fout' = [fout EXCEPT !.fail = @ + 1]]_vars

C17_Witness ==
    /\ LastRejected
    /\ fin.calls >= 3
    /\ fout = LbfgsInit(fin.c)

(***************************************************************************)
(* The IPM object and solve                                                *)
(***************************************************************************)

\* Python's None, and a value that is not None
None == [some |-> FALSE]

Some(v) == [some |-> TRUE, v |-> v]

\* a loop variable that no iteration has assigned yet
Undef == -1

\* a block of the KKT list: an array, or the scalar float_dtype(0.0)
Arr(v) == [scalar |-> FALSE, v |-> v]

Scalar0 == [scalar |-> TRUE, v |-> <<0>>]

RECURSIVE Pow(_, _)
Pow(b, k) == IF k = 0 THEN 1 ELSE b * Pow(b, k - 1)

\* lda[self.neq:]
LdaI(c, l) == [i \in 1..c.nineq |-> l[c.neq + i]]

\* grad[nvar:nvar+nineq] = lambda[neq:] - mu_dev/(s_dev + eps)  (line 451),
\* multiplied by s in KKT (lines 564, 574)
Kkt2(c, ss, l, mud) ==
    [i \in 1..c.nineq |-> RMul(l[c.neq + i] - RQuo(mud, ss[i] + eps), ss[i])]

\* mutant of KKT: the slack block is not multiplied by s
KKTUnscaled(c, g1, ce, ci, ss, l, mud) ==
    [k1 |-> Arr(g1),
     k2 |-> IF c.nineq > 0
            THEN Arr([i \in 1..c.nineq |->
                         l[c.neq + i] - RQuo(mud, ss[i] + eps)])
            ELSE Scalar0,
     k3 |-> IF c.neq > 0 THEN Arr(ce) ELSE Scalar0,
     k4 |-> IF c.nineq > 0 THEN Arr([i \in 1..c.nineq |-> ci[i] - ss[i]])
            ELSE Scalar0]

\* KKT(x, s, lda): g1 is grad[:nvar], ce is self.ce and ci is self.ci at x
KKT(c, g1, ce, ci, ss, l, mud) ==
    [k1 |-> Arr(g1),
     k2 |-> IF c.nineq > 0 THEN Arr(Kkt2(c, ss, l, mud)) ELSE Scalar0,
     k3 |-> IF c.neq > 0 THEN Arr(ce) ELSE Scalar0,
     k4 |-> IF c.nineq > 0 THEN Arr([i \in 1..c.nineq |-> ci[i] - ss[i]])
            ELSE Scalar0]

\* mutant of NormsLe: only the primal block is tested
NormsLePrimalOnly(k, tol) == NormLe(k.k1.v, tol)

\* the test of lines 1084 and 1093 and 1174 on the list kkt
NormsLe(k, tol) ==
    /\ NormLe(k.k1.v, tol)
    /\ NormLe(k.k2.v, tol)
    /\ NormLe(k.k3.v, tol)
    /\ NormLe(k.k4.v, tol)

\* init_slack: elementwise max(ci, Ktol)  (line 453)
InitSlack(c, ci) == [i \in 1..c.nineq |-> Max(ci[i], c.Ktol)]

\* lines 1054-1059: negative inequality multipliers are set to Ktol
ClipLambda(c, l) ==
    IF c.nineq > 0
    THEN [i \in 1..(c.neq + c.nineq) |->
            IF i > c.neq /\ l[i] < 0 THEN c.Ktol ELSE l[i]]
    ELSE l

\* mutant of MuStart: the barrier parameter is not initialised
MuStartZero(c) == 0

\* mutant of MuStart: self.mu is used whether or not there are inequalities
MuStartConfigured(c) == c.mu

\* lines 1043 and 1046: the barrier parameter at the start of solve
MuStart(c) == IF c.nineq > 0 THEN c.mu ELSE c.Ktol

\* mutant of NuNext: the threshold is assigned unconditionally
NuAssign(nu, nu_thres) == nu_thres

\* lines 1127-1128: the penalty after comparing it with the threshold
NuNext(nu, nu_thres) == IF nu < nu_thres THEN nu_thres ELSE nu

RECURSIVE MinSeq(_)
MinSeq(q) == IF Len(q) = 1 THEN q[1] ELSE Min(Head(q), MinSeq(Tail(q)))

\* mutant of MuUpdate: the barrier parameter is left as it is
MuHold(c, ss, l, mu) == mu

\* lines 1161-1165: the new barrier parameter
MuUpdate(c, ss, l, mu) ==
    LET li == LdaI(c, l)
        prods == [i \in 1..c.nineq |-> RMul(ss[i], li[i])]
        dot == Dot(ss, li)
        xi == RQuo(c.nineq * MinSeq(prods), dot + eps)
        q == RDiv((SC - xi) * SC, 20 * (xi + eps))
        m == Min(q, 2 * SC)
        new == RDiv(m * m * m * dot, 10 * c.nineq * SC * SC * SC)
    IN  IF new < 0 THEN 0 ELSE new

\* alpha*v on the grid, for alpha = (a/SC) * tau^k
Scaled(c, a, k, v) ==
    RDiv(a * Pow(c.tau[1], k) * v, SC * Pow(c.tau[2], k))

ScaledVec(c, a, k, v) == [i \in 1..Len(v) |-> Scaled(c, a, k, v[i])]

VecAdd(u, v) == [i \in 1..Len(u) |-> u[i] + v[i]]

\* the point search returns (lines 971-1012).  path.kind is "first" (the
\* first trial passes the Armijo test), "back" (path.k >= 1 multiplications
\* by tau) or "corr" (second-order correction accepted, with direction
\* path.px, path.ps)
SearchPoint(c, x0, s0, l0, d, aS, aL, path) ==
    IF path.kind = "corr"
    THEN LET ws == VecAdd(ScaledVec(c, aS, 0, d.ds), path.ps)
             wx == Scaled(c, aS, 0, d.dx) + path.px
             ac == IF c.nineq > 0
                   THEN step(c.tau[1], c.tau[2], c.Xtol, s0, ws)
                   ELSE SC
         IN  [x |-> x0 + RMul(ac, wx),
              s |-> [i \in 1..c.nineq |-> s0[i] + RMul(ac, ws[i])],
              lda |-> VecAdd(l0, ScaledVec(c, aL, 0, d.dl))]
    ELSE [x |-> x0 + Scaled(c, aS, path.k, d.dx),
          s |-> VecAdd(s0, ScaledVec(c, aS, path.k, d.ds)),
          lda |-> VecAdd(l0, ScaledVec(c, aL, path.k, d.dl))]

\* ---- bounds of the solve model ----
NIter == 2
MIter == 2
MaxRuns == 2
MaxBack == 1
MaxRetry == 1

\* constructor arguments and, below them, the problem and the caller:
\*   dirs     what the linear solve can give for the slack direction (a full
\*            step, or one that overshoots the boundary)
\*   regs     how reghess can end (0: Hessian used as it is, r + 1: the
\*            loop of lines 880-884 ran r times)
\*   nuths    the values nu_thres can take
\*   paths    how the line search can end
\*   supplies whether the caller may pass s0 and lda0 to solve
\*   runs     how many times the caller invokes solve on the object
\* tau is 1/2 rather than the default 0.995 so that a step obeying the
\* fraction-to-the-boundary rule stays at least half a grid unit above the
\* boundary and survives rounding to the grid
BaseCfg ==
    [neq |-> 0, nineq |-> 0, lbfgs |-> 0, zetaGiven |-> FALSE,
     verbosity |-> 0, mu |-> 3 * eps, nu |-> SC, Ktol |-> 2 * eps,
     miter |-> MIter, niter |-> NIter, tau |-> <<1, 2>>, Xtol |-> eps,
     dirs |-> {0}, regs |-> {0}, nuths |-> {0}, paths |-> {"first"},
     supplies |-> FALSE, runs |-> 1, finite |-> TRUE,
     x0Given |-> TRUE, fGiven |-> TRUE, singular |-> FALSE]

Configs ==
    {[BaseCfg EXCEPT !.regs = {0, MaxRetry + 1}, !.paths = {"first", "back"}],
     [BaseCfg EXCEPT !.lbfgs = LbfgsMem, !.verbosity = -1,
                     !.paths = {"first", "back"}, !.runs = MaxRuns],
     [BaseCfg EXCEPT !.neq = 1, !.nuths = {0, 2 * SC},
                     !.paths = {"first", "back", "corr"}],
     [BaseCfg EXCEPT !.neq = 1, !.lbfgs = LbfgsMem],
     [BaseCfg EXCEPT !.nineq = 1, !.dirs = {-2 * SC, 0}],
     [BaseCfg EXCEPT !.nineq = 1, !.mu = eps, !.verbosity = -1,
                     !.supplies = TRUE, !.runs = MaxRuns],
     [BaseCfg EXCEPT !.nineq = 1, !.lbfgs = LbfgsMem, !.zetaGiven = TRUE],
     [BaseCfg EXCEPT !.neq = 1, !.nineq = 1, !.verbosity = -1,
                     !.regs = {0, MaxRetry + 1}, !.nuths = {0, 2 * SC},
                     !.paths = {"first", "back", "corr"}],
     [BaseCfg EXCEPT !.nineq = 2, !.mu = eps, !.dirs = {-2 * SC, 0},
                     !.paths = {"first", "corr"}],
     [BaseCfg EXCEPT !.lbfgs = LbfgsMem, !.finite = FALSE],
     [BaseCfg EXCEPT !.nineq = 1, !.supplies = TRUE, !.x0Given = FALSE],
     [BaseCfg EXCEPT !.neq = 1, !.supplies = TRUE, !.fGiven = FALSE],
     [BaseCfg EXCEPT !.nineq = 1, !.paths = {"first", "corr"},
                     !.singular = TRUE],
     [BaseCfg EXCEPT !.lbfgs = LbfgsMem, !.singular = TRUE]}

Constrained(c) == c.neq > 0 \/ c.nineq > 0

\* values the user's expressions and the linear algebra can produce
Ones(n, v) == [i \in 1..n |-> v]

VecsOf(S, n) == [1..n -> S]

CiInit(c) ==
    IF c.nineq = 2 THEN {<<c.Ktol, c.Ktol>>, <<-SC, 2 * SC>>}
    ELSE VecsOf({-SC, c.Ktol, 2 * SC}, c.nineq)

LamInit(c) ==
    IF c.nineq = 2 THEN {<<-SC, 2 * SC>>, <<0, -SC>>}
    ELSE {[i \in 1..(c.neq + c.nineq) |-> IF i > c.neq THEN v ELSE SC] :
            v \in {-SC, 0, 2 * SC}}

S0Args(c) ==
    IF c.nineq > 0 /\ c.supplies
    THEN {None, Some(Ones(c.nineq, SC))}
    ELSE {None}

Lda0Args(c) ==
    IF Constrained(c) /\ c.supplies
    THEN {None, Some(Ones(c.neq + c.nineq, SC))}
    ELSE {None}

\* what the compiled expressions give at a point: g1 is grad[:nvar], ce the
\* equality constraints, off the excess of ci over the slacks.  The three
\* draws are a stationary feasible point, a point that is stationary only
\* to within 3*eps, and a point far from both
Residuals(c) ==
    {[g1 |-> <<r[1]>>, ce |-> Ones(c.neq, r[2]), off |-> r[3]] :
        r \in {<<0, 0, 0>>, <<3 * eps, 0, 0>>, <<3 * eps, SC, SC>>}
               \cup (IF c.finite THEN {} ELSE {<<NaN, 0, 0>>})}

\* the directions the linear solve gives: a full step, and a step that
\* overshoots the boundary of the slacks and of their multipliers
DzSet(c) ==
    {[dx |-> eps, ds |-> Ones(c.nineq, v),
      dl |-> [i \in 1..(c.neq + c.nineq) |-> IF i > c.neq THEN v ELSE -v]] :
        v \in c.dirs}

NoDz == [dx |-> 0, ds |-> <<>>, dl |-> <<>>]

NoKkt == [k1 |-> Scalar0, k2 |-> Scalar0, k3 |-> Scalar0, k4 |-> Scalar0]

\* the state after IPM.__init__ (lines 241-290)
Init ==
    /\ fin = [fn |-> "none"]
    /\ fout = NoRes
    /\ cfg \in Configs
    /\ pc = "idle"
    /\ run = 0
    /\ self_s0 = None
    /\ self_lda0 = None
    /\ compiled = FALSE
    /\ mu_host = Undef
    /\ mu_dev = Undef
    /\ nu_host = Undef
    /\ nu_dev = Undef
    /\ delta = Undef
    /\ x = 0
    /\ s = <<>>
    /\ lda = <<>>
    /\ kkt = NoKkt
    /\ lb = None
    /\ dz = NoDz
    /\ outer = Undef
    /\ inner = Undef
    /\ iter_count = 0
    /\ exitBy = "none"
    /\ ret = None
    /\ start = <<>>
    /\ linfail = {}

\* lbfgs_init (lines 585-599), in terms of the number of stored columns
lbfgs_init == Some([cols |-> 0, fail |-> 0])

\* the asserts of solve (lines 1029-1030) on self.x0 and, at the first call,
\* of validate_and_compile (lines 301-302) on the objective
AssertFails(c, comp) == ~c.x0Given \/ (~comp /\ ~c.fGiven)

\* solve, lines 1022-1080
SolveCall ==
    /\ pc \in {"idle", "done"}
    /\ run < cfg.runs
    /\ \E s0a \in S0Args(cfg), l0a \in Lda0Args(cfg), ci0 \in CiInit(cfg),
          lam0 \in LamInit(cfg), res \in Residuals(cfg) :
        LET ns0 == IF s0a.some THEN s0a ELSE self_s0
            nl0 == IF l0a.some THEN l0a ELSE self_lda0
            mud0 == IF compiled THEN mu_dev ELSE cfg.mu
            nud0 == IF compiled THEN nu_dev ELSE cfg.nu
            s1 == IF cfg.nineq > 0
                  THEN (IF ns0.some THEN ns0.v ELSE InitSlack(cfg, ci0))
                  ELSE <<>>
            muh == MuStart(cfg)
            mud == IF cfg.nineq > 0 THEN mud0 ELSE muh
            l1 == IF Constrained(cfg)
                  THEN (IF nl0.some THEN nl0.v ELSE ClipLambda(cfg, lam0))
                  ELSE <<>>
            nuh == IF Constrained(cfg) THEN cfg.nu ELSE nu_host
            nud == IF Constrained(cfg) THEN cfg.nu ELSE nud0
            raise == cfg.lbfgs > 0 /\ cfg.zetaGiven
            lb1 == IF cfg.lbfgs > 0 /\ ~raise THEN lbfgs_init ELSE None
        IN  /\ self_s0' = ns0
            /\ self_lda0' = nl0
            /\ IF AssertFails(cfg, compiled)
               THEN /\ pc' = "raised"
                    /\ ret' = Some([kind |-> "raise",
                                    exc |-> "AssertionError"])
                    /\ UNCHANGED <<compiled, x, s, lda, mu_host, mu_dev,
                                   nu_host, nu_dev, delta, kkt, lb, start>>
               ELSE /\ compiled' = TRUE
                    /\ x' = 0
                    /\ s' = s1
                    /\ lda' = l1
                    /\ mu_host' = muh
                    /\ mu_dev' = mud
                    /\ nu_host' = nuh
                    /\ nu_dev' = nud
                    /\ delta' = 0
                    /\ kkt' = KKT(cfg, res.g1, res.ce, ci0, s1, l1, mud)
                    /\ lb' = lb1
                    /\ pc' = IF raise THEN "raised" ELSE "outer"
                    /\ ret' = IF raise THEN Some([kind |-> "raise",
                                                  exc |-> "AttributeError"])
                              ELSE None
                    /\ start' = Append(start, [mu_host |-> muh, mu_dev |-> mud,
                                               nu_host |-> nuh, nu_dev |-> nud,
                                               delta |-> 0, lb |-> lb1,
                                               s0arg |-> s0a.some])
    /\ run' = run + 1
    /\ dz' = NoDz
    /\ outer' = Undef
    /\ inner' = Undef
    /\ iter_count' = 0
    /\ exitBy' = "none"
    /\ linfail' = {}
    /\ UNCHANGED <<fvars, cfg>>

\* the locals and attributes an action of the loop leaves alone
objConst == <<fvars, cfg, run, self_s0, self_lda0, compiled, start, ret>>

\* mutant of RangeEnds: the loop body runs once more
RangeEndsLate(i, n) == i > n

\* "for i in range(n)" is over when the next index i reaches n
RangeEnds(i, n) == i >= n

\* for outer in range(self.niter) and the test of lines 1084-1085
OuterTop ==
    /\ pc = "outer"
    /\ IF RangeEnds(outer + 1, cfg.niter)
       THEN /\ pc' = "finish"
            /\ exitBy' = "exhausted"
            /\ outer' = outer
       ELSE /\ outer' = outer + 1
            /\ IF NormsLe(kkt, cfg.Ktol)
               THEN pc' = "finish" /\ exitBy' = "converged"
               ELSE pc' = "inner_first" /\ exitBy' = exitBy
    /\ UNCHANGED linfail
    /\ UNCHANGED <<objConst, mu_host, mu_dev, nu_host, nu_dev, delta, x, s,
                   lda, kkt, lb, dz, inner, iter_count>>

\* for inner in range(self.miter) and the test of lines 1092-1094
InnerTop ==
    /\ pc \in {"inner_first", "inner_next"}
    /\ LET nxt == IF pc = "inner_first" THEN 0 ELSE inner + 1
           muTol == Max(cfg.Ktol, mu_host)
       IN  IF RangeEnds(nxt, cfg.miter)
           THEN pc' = "after" /\ inner' = inner
           ELSE /\ inner' = nxt
                /\ pc' = IF NormsLe(kkt, muTol) THEN "after" ELSE "dir"
    /\ UNCHANGED linfail
    /\ UNCHANGED <<objConst, mu_host, mu_dev, nu_host, nu_dev, delta, x, s,
                   lda, kkt, lb, dz, outer, iter_count, exitBy>>

RECURSIVE Retried(_, _)
Retried(d, r) == IF r = 0 THEN d ELSE Retried(DeltaRetry(d), r - 1)

\* the value of self.delta after reghess (lines 860-886): out = 0 when the
\* Hessian is used as it is, out = r + 1 when the loop of lines 880-884
\* ran r times
DeltaAfter(d, out) == IF out = 0 THEN d ELSE Retried(DeltaStart(d), out - 1)

\* lbfgs_update (lines 785-858), in terms of the number of stored columns
lbfgs_update(c, l, accept) ==
    LET upd == IF accept
               THEN [cols |-> IF l.cols > c.lbfgs THEN l.cols ELSE l.cols + 1,
                     fail |-> 0]
               ELSE [l EXCEPT !.fail = @ + 1]
    IN  IF upd.fail > c.lbfgs /\ upd.cols > 0 THEN lbfgs_init.v ELSE upd

\* whether the matrix handed to sym_solve can be singular
Singular(c) == IF c.singular THEN BOOLEAN ELSE {FALSE}

\* what becomes of an exception raised by sym_solve: the bare except of
\* search (lines 954, 987) replaces the result by that of np.linalg.lstsq;
\* there is no handler around the calls in solve and lbfgs_dir
ExceptHandlerNone(site) == "raise"

ExceptHandler(site) == IF site = "search" THEN "lstsq" ELSE "raise"

LinAlgError == Some([kind |-> "raise", exc |-> "LinAlgError"])

\* line 673 of lbfgs_dir reads the name beta, which is neither a local nor
\* a global (the attribute is self.beta)
BetaNameError ==
    Some([kind |-> "raise", exc |-> "NameError", name |-> "beta"])

\* lines 1109-1123: the search direction
Direction ==
    /\ pc = "dir"
    /\ \E d \in DzSet(cfg), out \in cfg.regs, accept \in BOOLEAN,
          ill \in BOOLEAN, sing \in Singular(cfg) :
        LET esc == sing /\ ExceptHandler("dir") = "raise"
        IN  /\ IF cfg.lbfgs > 0
               THEN /\ out = 0
                    /\ (inner > 0 \/ outer > 0) \/ accept
                    /\ (cfg.neq > 0) \/ ~ill
                    /\ ill => ~sing
                    /\ lb' = IF inner > 0 \/ outer > 0
                             THEN Some(lbfgs_update(cfg, lb.v, accept))
                             ELSE lb
                    /\ delta' = delta
               ELSE /\ accept /\ ~ill
                    /\ DeltaAfter(delta, out) <= DeltaCap
                    /\ delta' = DeltaAfter(delta, out)
                    /\ lb' = lb
            /\ IF ill
               THEN /\ pc' = "raised"
                    /\ dz' = dz
                    /\ ret' = BetaNameError
               ELSE IF esc
               THEN /\ pc' = "raised"
                    /\ dz' = dz
                    /\ ret' = LinAlgError
               ELSE /\ pc' = "nu"
                    /\ dz' = d
                    /\ ret' = ret
            /\ linfail' = IF sing THEN linfail \cup {"dir"} ELSE linfail
    /\ UNCHANGED <<fvars, cfg, run, self_s0, self_lda0, compiled, start,
                   mu_host, mu_dev, nu_host, nu_dev, x, s, lda, kkt, outer,
                   inner, iter_count, exitBy>>

\* lines 1125-1129: the merit function penalty
NuUpdate ==
    /\ pc = "nu"
    /\ IF Constrained(cfg)
       THEN \E nu_thres \in cfg.nuths :
              IF NuNext(nu_host, nu_thres) # nu_host
              THEN /\ nu_host' = NuNext(nu_host, nu_thres)
                   /\ nu_dev' = NuNext(nu_host, nu_thres)
              ELSE UNCHANGED <<nu_host, nu_dev>>
       ELSE UNCHANGED <<nu_host, nu_dev>>
    /\ pc' = "search"
    /\ UNCHANGED linfail
    /\ UNCHANGED <<objConst, mu_host, mu_dev, delta, x, s, lda, kkt, lb, dz,
                   outer, inner, iter_count, exitBy>>

\* the outcomes of the Armijo tests and of the feasibility restoration
Paths(c) ==
    {p \in {[kind |-> "first", k |-> 0, px |-> 0, ps |-> Ones(c.nineq, 0)]}
           \cup {[kind |-> "back", k |-> k, px |-> 0,
                  ps |-> Ones(c.nineq, 0)] : k \in 1..MaxBack}
           \cup {[kind |-> "corr", k |-> 0, px |-> eps,
                  ps |-> Ones(c.nineq, -SC)]} :
        p.kind \in c.paths}

\* whether sym_solve raises in the feasibility restoration of search: it is
\* called only on the correction path, and in the branch without
\* inequalities its argument is c_new.reshape((nvar, nineq, 1)) with
\* nineq = 0, which always raises (line 986)
SymFails(c, path) ==
    IF path.kind # "corr" THEN {FALSE}
    ELSE IF c.nineq = 0 THEN {TRUE}
    ELSE Singular(c)

\* mutant of AlphaMax: without inequalities the line search starts from 0
AlphaMaxZero(c, p, dp) ==
    IF c.nineq > 0 THEN step(c.tau[1], c.tau[2], c.Xtol, p, dp) ELSE 0

\* lines 1130-1135: the step lengths handed to search, from the
\* fraction-to-the-boundary rule with inequalities and 1.0 without
AlphaMax(c, p, dp) ==
    IF c.nineq > 0 THEN step(c.tau[1], c.tau[2], c.Xtol, p, dp) ELSE SC

\* lines 1131-1146: step lengths, line search, KKT at the new point
SearchStep ==
    /\ pc = "search"
    /\ LET alpha_smax == AlphaMax(cfg, s, dz.ds)
           alpha_lmax == AlphaMax(cfg, LdaI(cfg, lda), LdaI(cfg, dz.dl))
       IN  \E path \in Paths(cfg) : \E sing \in SymFails(cfg, path) :
             LET pt == SearchPoint(cfg, x, s, lda, dz, alpha_smax,
                                   alpha_lmax, path)
                 esc == sing /\ ExceptHandler("search") = "raise"
             IN  /\ linfail' = IF sing THEN linfail \cup {"search"}
                                ELSE linfail
                 /\ IF esc
                    THEN /\ pc' = "raised"
                         /\ ret' = LinAlgError
                         /\ UNCHANGED <<x, s, lda, kkt, iter_count>>
                    ELSE \E res \in Residuals(cfg) :
                           /\ x' = pt.x
                           /\ s' = pt.s
                           /\ lda' = pt.lda
                           /\ kkt' = KKT(cfg, res.g1, res.ce,
                                         [i \in 1..cfg.nineq |->
                                              pt.s[i] + res.off],
                                         pt.s, pt.lda, mu_dev)
                           /\ iter_count' = iter_count + 1
                           /\ pc' = "inner_next"
                           /\ ret' = ret
    /\ UNCHANGED <<fvars, cfg, run, self_s0, self_lda0, compiled, start,
                   mu_host, mu_dev, nu_host, nu_dev, delta, lb, dz, outer,
                   inner, exitBy>>

\* lines 1152-1166: the outer budget test and the barrier parameter update
AfterInner ==
    /\ pc = "after"
    /\ IF outer >= cfg.niter - 1
       THEN /\ pc' = "finish"
            /\ exitBy' = "budget"
            /\ UNCHANGED <<mu_host, mu_dev>>
       ELSE /\ pc' = "outer"
            /\ exitBy' = exitBy
            /\ IF cfg.nineq > 0
               THEN /\ mu_host' = MuUpdate(cfg, s, lda, mu_host)
                    /\ mu_dev' = MuUpdate(cfg, s, lda, mu_host)
               ELSE UNCHANGED <<mu_host, mu_dev>>
    /\ UNCHANGED linfail
    /\ UNCHANGED <<objConst, nu_host, nu_dev, delta, x, s, lda, kkt, lb, dz,
                   outer, inner, iter_count>>

\* mutant of SolveResult: the exit message is built from unset loop variables
SolveResultRaises(xx, ss, l, k) ==
    Some([kind |-> "raise", exc |-> "NameError"])

\* the tuple solve returns (line 1212); fval is the cost at x
SolveResult(xx, ss, l, k) ==
    Some([kind |-> "tuple", x |-> xx, s |-> ss, lda |-> l, fval |-> xx,
          kkt |-> k])

\* lines 1168-1212: results are stored, the exit message is built, the
\* tuple is returned
Finish ==
    /\ pc = "finish"
    /\ LET conv == NormsLe(kkt, cfg.Ktol)
           talk == cfg.verbosity >= 0
           o2 == IF talk /\ ~conv THEN cfg.niter ELSE outer
           i2 == IF talk /\ ~conv THEN 0 ELSE inner
           unbound == talk /\ Constrained(cfg) /\ (o2 = Undef \/ i2 = Undef)
       IN  /\ outer' = o2
           /\ inner' = i2
           /\ IF unbound
              THEN /\ pc' = "raised"
                   /\ ret' = Some([kind |-> "raise", exc |-> "NameError"])
              ELSE /\ pc' = "done"
                   /\ ret' = SolveResult(x, s, lda, kkt)
    /\ UNCHANGED linfail
    /\ UNCHANGED <<fvars, cfg, run, self_s0, self_lda0, compiled, start,
                   mu_host, mu_dev, nu_host, nu_dev, delta, x, s, lda, kkt,
                   lb, dz, iter_count, exitBy>>

Next ==
    \/ SolveCall
    \/ OuterTop
    \/ InnerTop
    \/ Direction
    \/ NuUpdate
    \/ SearchStep
    \/ AfterInner
    \/ Finish

Spec == Init /\ [][Next]_vars

(***************************************************************************)
(* search on its own (lines 920-1012)                                      *)
(*                                                                         *)
(* The merit function is the caller's: what the code learns from it is the *)
(* outcome of each comparison against the Armijo bound, given here by the  *)
(* record o:                                                               *)
(*   o.phi[k+1]  the merit value at the trial point after k multiplications*)
(*               by tau, against phi0 + alpha*eta*dphi0                    *)
(*   o.grow      sum(|c_new|) > sum(|c_old|)                               *)
(*   o.corr1     the merit value at the corrected point (957, 991)         *)
(*   o.corr2     the same after the step rule was applied to it (959)      *)
(*   o.px, o.ps  the feasibility restoration direction dz_p                *)
(***************************************************************************)

\* "le": value <= bound; "gt": value > bound; "nan": one of the two is not
\* a number, and then both `value > bound` and `value <= bound` are false
Answers == {"le", "gt", "nan"}

\* phi(...) > phi0 + alpha_smax*eta*dphi0  (lines 943, 968, 975, 1003)
Exceeds(a) == a = "gt"

\* phi(...) <= phi0 + alpha*eta*dphi0  (lines 957, 959, 991)
Within(a) == a = "le"

\* mutant of CorrectionAttempted: attempted whether or not the violation grew
CorrectionAttemptedAnyway(c, o) ==
    /\ Exceeds(o.phi[1])
    /\ (c.nineq > 0 \/ c.neq > 0)

\* lines 943-948 and 975-981: the restoration direction is computed after
\* the first trial failed and the l1 violation grew; without inequalities
\* only if there are equalities
CorrectionAttempted(c, o) ==
    /\ Exceeds(o.phi[1])
    /\ (c.nineq > 0 \/ c.neq > 0)
    /\ o.grow

\* lines 957-964 and 991-996
CorrectionAccepted(c, o) ==
    /\ CorrectionAttempted(c, o)
    /\ Within(o.corr1)
    /\ (c.nineq > 0 => Within(o.corr2))

\* lines 965-970 and 1000-1005: one multiplication by tau, then one more
\* for as long as the trial exceeds the bound; k counts them
RECURSIVE Backtrack(_, _)
Backtrack(o, k) == IF Exceeds(o.phi[k + 1]) THEN Backtrack(o, k + 1) ELSE k

search(c, x0, s0, l0, d, alpha_smax, alpha_lmax, o) ==
    LET con == c.neq > 0 \/ c.nineq > 0
        aL == IF con THEN alpha_lmax ELSE 0
        correction == CorrectionAccepted(c, o)
        k == IF Exceeds(o.phi[1]) /\ ~correction THEN Backtrack(o, 1) ELSE 0
        path == [kind |-> IF correction THEN "corr"
                          ELSE IF k = 0 THEN "first" ELSE "back",
                 k |-> k, px |-> o.px, ps |-> o.ps]
        pt == SearchPoint(c, x0, s0, l0, d, alpha_smax, aL, path)
    IN  [x |-> pt.x, s |-> pt.s, lda |-> pt.lda,
         correction |-> correction,
         attempts |-> IF CorrectionAttempted(c, o) THEN 1 ELSE 0,
         k |-> k]

\* the outcomes of the trials: the loop of lines 968 and 1003 ends within
\* MaxBack multiplications
PhiSeqs == {q \in [1..(MaxBack + 1) -> Answers] : ~Exceeds(q[MaxBack + 1])}

SearchDims == {<<0, 0>>, <<1, 0>>, <<0, 1>>}

InitSearch ==
    /\ fin \in {[fn |-> "search",
                 c |-> [neq |-> dm[1], nineq |-> dm[2], tau |-> <<1, 2>>,
                        Xtol |-> eps],
                 x0 |-> 0, s0 |-> Ones(dm[2], SC),
                 l0 |-> Ones(dm[1] + dm[2], SC),
                 d |-> [dx |-> dx, ds |-> Ones(dm[2], -2 * SC),
                        dl |-> Ones(dm[1] + dm[2], -2 * SC)],
                 o |-> [phi |-> q, grow |-> g, corr1 |-> c1, corr2 |-> c2,
                        px |-> eps, ps |-> Ones(dm[2], -SC)]] :
                 dm \in SearchDims, dx \in {SC, -SC}, q \in PhiSeqs,
                 g \in BOOLEAN, c1 \in {"le", "gt"}, c2 \in {"le", "gt"}}
    /\ fout = NoRes
    /\ SolveParked

\* solve hands search the step lengths of lines 1130-1135
SearchCall ==
    /\ fin.fn = "search"
    /\ fout = NoRes
    /\ LET aS == AlphaMax(fin.c, fin.s0, fin.d.ds)
           aL == AlphaMax(fin.c, LdaI(fin.c, fin.l0), LdaI(fin.c, fin.d.dl))
           r == search(fin.c, fin.x0, fin.s0, fin.l0, fin.d, aS, aL, fin.o)
       IN  fout' = [done |-> TRUE, x |-> r.x, s |-> r.s, lda |-> r.lda,
                    correction |-> r.correction, attempts |-> r.attempts,
                    k |-> r.k, alpha_smax |-> aS, alpha_lmax |-> aL]
    /\ UNCHANGED <<fin, svars>>

NextSearch == SearchCall

SpecSearch == InitSearch /\ [][NextSearch]_vars

(***************************************************************************)
(* Properties of solve                                                     *)
(***************************************************************************)

\* every block of a KKT list has Euclidean norm <= tol
AllBlocksWithin(k, tol) ==
    \A b \in {k.k1, k.k2, k.k3, k.k4} :
        ~HasNaN(b.v) /\ NormSq(b.v) <= tol * tol

InLoop == pc \in {"outer", "inner_first", "inner_next", "dir", "nu", "search",
                  "after"}

InInnerLoop == pc \in {"inner_next", "dir", "nu", "search"}

DefaultStart == ~self_s0.some /\ ~self_lda0.some

\* C1: solve leaves its loops, and returns, only when all four KKT block
\* norms are <= Ktol or when the outer iteration budget niter is used up;
\* there is no other way out of the loops to the return statement.
C1_ReturnsConvergedOrBudget ==
    /\ pc \in {"finish", "done"} =>
         /\ exitBy \in {"converged", "budget", "exhausted"}
         /\ exitBy = "converged" => AllBlocksWithin(kkt, cfg.Ktol)
    /\ pc = "finish" =>
         /\ exitBy = "budget" => outer >= cfg.niter - 1
         /\ exitBy = "exhausted" => cfg.niter = 0
    /\ pc = "done" => (ret.some /\ ret.v.kind = "tuple")

C1_Witness ==
    /\ pc = "done"
    /\ exitBy = "converged"
    /\ iter_count >= 1
    /\ cfg.nineq > 0

\* C2: with N > 0 and default initialisation, at every iterate of solve
\* every slack and every inequality multiplier is strictly positive.
C2_StrictlyPositive ==
    (cfg.nineq > 0 /\ InLoop /\ DefaultStart) =>
        \A i \in 1..cfg.nineq : s[i] > 0 /\ lda[cfg.neq + i] > 0

\* C5: within one solve call nu_host and nu_dev never decrease; they change
\* only in the penalty update, together, to a threshold strictly larger
\* than the value replaced.
C5_NuNeverDecreases ==
    [][run' = run =>
         /\ nu_host' >= nu_host
         /\ nu_dev' >= nu_dev
         /\ (nu_host' # nu_host \/ nu_dev' # nu_dev) =>
              /\ pc = "nu"
              /\ nu_host' \in cfg.nuths
              /\ nu_host' > nu_host
              /\ nu_dev' = nu_host']_vars

C5_Witness ==
    /\ pc = "search"
    /\ inner >= 1
    /\ nu_host > cfg.nu
    /\ nu_dev = nu_host

\* C6 (as stated): within one solve call the value a barrier update assigns
\* to mu is never larger than the value it replaces.
C6_MuNonincreasing == [][run' = run => mu_host' <= mu_host]_vars

\* C6 (amended): a barrier update assigns to mu, on host and device alike,
\* a value between 0 and the mean complementarity product s.lda/N of the
\* current iterate; the value does not depend on the one it replaces and
\* can be larger.
C6_MuBoundedByComplementarity ==
    [][(pc = "after" /\ pc' = "outer" /\ cfg.nineq > 0) =>
         /\ mu_host' >= 0
         /\ mu_host' <= RDiv(Dot(s, LdaI(cfg, lda)), cfg.nineq)
         /\ mu_dev' = mu_host']_vars

C6_Witness ==
    /\ pc = "outer"
    /\ outer = 0
    /\ cfg.nineq > 0
    /\ mu_host > cfg.mu

\* C7 (as stated): mu is strictly positive at every point of a solve call.
C7_MuStrictlyPositive == start # <<>> => mu_host > 0

\* C7 (amended): mu is never negative during a solve call; it is strictly
\* positive from the start of the call until the first barrier update, and
\* an update can set it to exactly 0.
C7_MuNonNegative ==
    /\ start # <<>> => (mu_host >= 0 /\ mu_dev >= 0)
    /\ ((pc = "outer" /\ outer = Undef) \/ (InInnerLoop /\ outer = 0)
         \/ (pc \in {"inner_first", "after"} /\ outer = 0)) => mu_host > 0

C7_Witness ==
    /\ pc = "dir"
    /\ outer >= 1
    /\ mu_host = 0
    /\ mu_dev = 0

\* C8: from the second inner iteration of an outer iteration on, until that
\* inner loop is left, neither mu nor nu changes.
C8_ConstantWithinInnerLoop ==
    [][(InInnerLoop /\ inner >= 1 /\ outer' = outer /\ run' = run) =>
         UNCHANGED <<mu_host, mu_dev, nu_host, nu_dev>>]_vars

\* C9: two calls of solve with the same x0 and no s0/lda0 start from the
\* same solver state: mu on host and device, nu, delta, L-BFGS storage.
C9_SameStartBothRuns ==
    (Len(start) >= 2 /\ DefaultStart) => start[2] = start[1]

\* C10: when the outer budget is used up without convergence, solve does
\* not raise; it returns the tuple (x, s, lda, fval, kkt) of the last
\* iterate and the KKT list computed for it.
C10_BudgetExitReturnsTuple ==
    (pc \in {"done", "raised"} /\ exitBy = "budget"
     /\ ~AllBlocksWithin(kkt, cfg.Ktol)) =>
        /\ pc = "done"
        /\ ret = Some([kind |-> "tuple", x |-> x, s |-> s, lda |-> lda,
                       fval |-> x, kkt |-> kkt])

C10_Witness ==
    /\ pc = "done"
    /\ exitBy = "budget"
    /\ ~AllBlocksWithin(kkt, cfg.Ktol)
    /\ cfg.verbosity >= 0
    /\ Constrained(cfg)
    /\ iter_count = cfg.niter * cfg.miter

\* C11: a NaN or infinity from the objective, gradient, constraints or merit
\* function aborts solve: with a KKT list computed from a non-finite value
\* solve neither goes on to a further direction, penalty update or line
\* search, nor returns.
C11_NonFiniteAborts ==
    HasNaN(kkt.k1.v) => pc \notin {"dir", "nu", "search", "done"}

\* C12: a missing x0 or a missing objective f is rejected when the solver is
\* constructed or configured: the error is not raised by a call of solve,
\* and no solver state has been modified when it is raised.
C12_RejectedBeforeSolve ==
    (pc = "raised" /\ ret.v.exc = "AssertionError") =>
        (run = 0 /\ self_s0 = None /\ self_lda0 = None)

\* C13: an exception of sym_solve in the second-order correction of search
\* does not leave search (the correction direction then comes from lstsq and
\* the solve call goes on); an exception of sym_solve in the computation of
\* the Newton or L-BFGS direction ends the solve call with that exception.
C13_SolveFailureHandling ==
    /\ "dir" \in linfail => (pc = "raised" /\ ret = LinAlgError)
    /\ ("search" \in linfail /\ "dir" \notin linfail) => ret # LinAlgError

C13_Witness ==
    /\ linfail = {"search", "dir"}
    /\ pc = "raised"
    /\ ret = LinAlgError
    /\ iter_count >= 1

C18_IterationBudget ==
    start # <<>> =>
        /\ iter_count <= cfg.niter * cfg.miter
        /\ pc \in {"dir", "nu", "search"} =>
              /\ 0 <= inner /\ inner < cfg.miter
              /\ 0 <= outer /\ outer < cfg.niter
              /\ iter_count <= outer * cfg.miter + inner
        /\ pc = "inner_next" =>
              /\ inner + 1 <= cfg.miter
              /\ iter_count <= outer * cfg.miter + inner + 1

C18_Witness ==
    /\ pc = "inner_next"
    /\ outer = cfg.niter - 1
    /\ inner = cfg.miter - 1
    /\ iter_count = cfg.niter * cfg.miter
    /\ cfg.niter >= 2
    /\ cfg.miter >= 2

\* C19: with N = 0 solve sets mu to Ktol at its start, on host and device,
\* and no inner or outer iteration of that call changes it.
C19_MuIsKtolWithoutInequalities ==
    (cfg.nineq = 0 /\ start # <<>>) =>
        (mu_host = cfg.Ktol /\ mu_dev = cfg.Ktol)

C19_Witness ==
    /\ cfg.nineq = 0
    /\ cfg.mu # cfg.Ktol
    /\ pc = "dir"
    /\ outer >= 1
    /\ iter_count >= 1
    /\ mu_host = cfg.Ktol
    /\ mu_dev = cfg.Ktol

\* C20: whatever earlier calls supplied, a call of solve without s0 starts
\* from the slack max(ci(x0), Ktol), elementwise, of its own x0.  (At the
\* start kkt[3] = ci(x0) - s, so ci(x0) = kkt[3] + s.)
C20_DefaultSlackWhenOmitted ==
    (pc = "outer" /\ outer = Undef /\ cfg.nineq > 0
     /\ ~start[Len(start)].s0arg) =>
        \A i \in 1..cfg.nineq : s[i] = Max(kkt.k4.v[i] + s[i], cfg.Ktol)

\* C21: the kkt list solve returns is KKT(x, s, lda) of the iterate it
\* returns: calling KKT on the returned x, s, lda right after the return
\* gives the same blocks.  (The slack block is the only one that depends on
\* solver state besides the iterate, through mu_dev.)
C21_ReturnedKktIsCurrent ==
    (pc = "done" /\ cfg.nineq > 0) =>
        ret.v.kkt.k2.v = Kkt2(cfg, ret.v.s, ret.v.lda, mu_dev)

\* C22: with M = N = 0 an inner iteration leaves s and lda the empty
\* vectors, never updates nu (nor mu), and its line search starts from the
\* step length 1: the new x is x + tau^k * dx for some k >= 0.
C22_UnconstrainedFrame ==
    [][(cfg.neq = 0 /\ cfg.nineq = 0
        /\ pc \in {"dir", "nu", "search"}) =>
          /\ s = <<>> /\ s' = <<>>
          /\ lda = <<>> /\ lda' = <<>>
          /\ UNCHANGED <<mu_host, mu_dev, nu_host, nu_dev>>
          /\ pc # "search" => x' = x
          /\ (pc = "search" /\ pc' = "inner_next") =>
                \E k \in 0..MaxBack : x' = x + Scaled(cfg, SC, k, dz.dx)]_vars

C22_Witness ==
    /\ cfg.neq = 0
    /\ cfg.nineq = 0
    /\ pc = "inner_next"
    /\ iter_count >= 2
    /\ x # 0
    /\ lb.some
    /\ lb.v.cols >= 1
    /\ s = <<>>
    /\ lda = <<>>

\* C23: when the initial point has all four KKT block norms <= Ktol, solve
\* does no iteration and returns the initial x, s, lda with f(x) and the
\* KKT list, with or without constraints and at every verbosity.
C23_ConvergedStartReturns ==
    (pc \in {"done", "raised"} /\ exitBy = "converged" /\ iter_count = 0) =>
        /\ pc = "done"
        /\ ret = Some([kind |-> "tuple", x |-> x, s |-> s, lda |-> lda,
                       fval |-> x, kkt |-> kkt])

C25_SuppliedZetaAccepted ==
    (cfg.lbfgs > 0 /\ cfg.zetaGiven /\ pc = "raised") =>
        ret.v.exc # "AttributeError"

\* C26: when search returns without a second-order correction, x, s and lda
\* have moved by the initial step lengths times one and the same power
\* tau^k, the merit value at the returned point is within the Armijo bound,
\* and k = 0 exactly when the first trial was already within it.
C26_BacktrackArmijo ==
    (fin.fn = "search" /\ fout.done /\ ~fout.correction) =>
        LET c == fin.c
            k == fout.k
        IN  /\ k \in 0..MaxBack
            /\ fout.x = fin.x0 + Scaled(c, fout.alpha_smax, k, fin.d.dx)
            /\ fout.s = VecAdd(fin.s0,
                               ScaledVec(c, fout.alpha_smax, k, fin.d.ds))
            /\ fout.lda = VecAdd(fin.l0,
                                 ScaledVec(c, fout.alpha_lmax, k, fin.d.dl))
            /\ fin.o.phi[k + 1] = "le"
            /\ (k = 0 <=> fin.o.phi[1] = "le")

\* C27: one call of search attempts the correction at most once, only after
\* the first trial exceeded the Armijo bound and the l1 violation grew; a
\* correction that is not accepted is followed by backtracking, an accepted
\* one by none.
C27_CorrectionOnce ==
    (fin.fn = "search" /\ fout.done) =>
        /\ fout.attempts \in {0, 1}
        /\ fout.attempts = 1 => (fin.o.phi[1] = "gt" /\ fin.o.grow)
        /\ (fout.attempts = 1 /\ ~fout.correction) => fout.k >= 1
        /\ fout.correction => (fout.attempts = 1 /\ fout.k = 0)

C27_Witness ==
    /\ fin.fn = "search"
    /\ fout.done
    /\ fout.attempts = 1
    /\ ~fout.correction
    /\ fout.k >= 1
    /\ fin.c.nineq > 0

\* C28: with inequality constraints, the step that follows an inner loop
\* updates mu when the loop ended by inner convergence (all KKT norms <=
\* max(Ktol, mu)) and leaves mu alone when the loop used up its miter
\* iterations without converging.
C28_MuUpdateAfterConvergenceOnly ==
    [][(pc = "after" /\ cfg.nineq > 0) =>
          LET conv == NormsLe(kkt, Max(cfg.Ktol, mu_host))
          IN  /\ (inner = cfg.miter - 1 /\ ~conv) =>
                     UNCHANGED <<mu_host, mu_dev>>
              /\ (inner < cfg.miter - 1 /\ conv) =>
                     /\ mu_host' = MuUpdate(cfg, s, lda, mu_host)
                     /\ mu_dev' = mu_host']_vars

\* C29: over the reghess calls of one solve, delta is 0 until a call has
\* regularized and at least delta0 afterwards; a regularizing call starts
\* from delta0 (delta was 0) or max(delta/2, delta0), multiplies delta by 10
\* per retry, and returns the matrix whose primal block is the original one
\* plus the final delta on the diagonal; a call that accepts the matrix
\* leaves delta and the matrix as they were.
C29_DeltaBookkeeping ==
    (fin.fn = "reghess") =>
        /\ ~fin.regd => fin.delta = 0
        /\ fin.regd => fin.delta >= delta0
        /\ (fout.done /\ fout.returned) =>
              IF Regularizes(fin.Hc, fin.dim[2], fin.dim[3])
              THEN LET first == IF fin.delta = 0 THEN delta0
                                ELSE Max(RDiv(fin.delta, 2), delta0)
                   IN  /\ \E r \in 0..4 : fout.delta = first * Pow(10, r)
                       /\ fout.delta >= delta0
                       /\ fout.H.a = fin.Hc.a + fout.delta
                       /\ fout.H.b = fin.Hc.b
                       /\ fin.dim[1] = 2 => fout.H.c = fin.Hc.c + fout.delta
              ELSE /\ fout.delta = fin.delta
                   /\ fout.H = fin.Hc

C29_Witness ==
    /\ fin.fn = "reghess"
    /\ fin.calls >= 2
    /\ fin.regd
    /\ fin.delta > delta0
    /\ fin.dim[1] = 2
    /\ fout.done
    /\ fout.returned
    /\ Regularizes(fin.Hc, fin.dim[2], fin.dim[3])
    /\ fout.delta = 10 * Max(RDiv(fin.delta, 2), delta0)

\* C30: after any sequence of lbfgs_update calls the stored matrices fit the
\* columns held: S and Y have the same number m of columns, SS, L and D are
\* m x m, D is diagonal with D[i,i] = S[:,i].Y[:,i], and with constraints SS
\* is S^T S and L the strictly lower triangle of S^T Y, without constraints
\* SS is Y^T Y and L the upper triangle of S^T Y.
C30_StorageConsistent ==
    (fin.fn = "lbfgs_update") =>
        LET m == Len(fout.S)
            Sq(Mt) == Len(Mt) = m /\ \A i \in 1..m : Len(Mt[i]) = m
        IN  /\ Len(fout.Y) = m
            /\ Sq(fout.SS)
            /\ Sq(fout.L)
            /\ Sq(fout.D)
            /\ \A i, j \in 1..m :
                  /\ fout.SS[i][j] = IF fin.c.con
                                     THEN Dot(fout.S[i], fout.S[j])
                                     ELSE Dot(fout.Y[i], fout.Y[j])
                  /\ fout.D[i][j] = IF i = j THEN Dot(fout.S[i], fout.Y[i])
                                    ELSE 0
                  /\ fout.L[i][j] = IF (fin.c.con /\ i > j)
                                        \/ (~fin.c.con /\ i <= j)
                                    THEN Dot(fout.S[i], fout.Y[j])
                                    ELSE 0

C30_Witness ==
    /\ fin.fn = "lbfgs_update"
    /\ fin.c.con
    /\ fin.evicted
    /\ Len(fout.S) = LbfgsMem + 1
    /\ fout.S[1] # fout.S[2]
    /\ fout.L[2][1] # 0
    /\ fout.fail = 0

====
